---- MODULE Spec2Model ----
(***************************************************************************)
(* Percepta orchestration core: the model registry (modelRegistry.js) and  *)
(* the pipeline engine (pipelineEngine.js: PipelineResult, PipelineEngine). *)
(***************************************************************************)
EXTENDS Integers, Sequences, FiniteSets, TLC

(* ------------------------------ bounds --------------------------------- *)
\* total number of onProgress calls in one behaviour of SpecObservers
MaxSubs == 2
\* number of onProgress calls made before the run in a behaviour of Spec
InitSubs == 1
\* longest fallback chain a register call may extend in SpecRegistry
MaxChain == 2
\* most step records the callers of SpecResult put into one PipelineResult
MaxRecords == 2
\* number of runAnalysis calls in one behaviour of SpecApp
MaxRuns == 2

(* ----------------------------- universe -------------------------------- *)
Vision == "gemini-vision"
Reasoning == "gemini-reasoning"
ModelIds == {Vision, Reasoning, "fb1", "fb2"}
\* a model instance is named after the id it is first registered under
InstanceOf(id) == id
NoModel == "null"
NoId == "null"
Undef == "undefined"
Callbacks == {"cbA", "cbB"}
Inputs == {"imgA", "imgB"}
NoInput == "none"
\* what a progress callback does when it is invoked
Behaviours == {"ok", "raise", "unsub"}

NoError == [kind |-> "none", by |-> "none", n |-> 0, message |-> "none"]
NoOutput == [by |-> "none", n |-> 0]
\* the value a successful analyze call number n of model m returns
OutputOf(m, n) == [by |-> m, n |-> n]
\* the error a failing analyze call number n of model m raises
AnalysisError(m, n) == [kind |-> "AnalysisError", by |-> m, n |-> n, message |-> "analyze failed"]
\* the error a raising progress callback (registration r) raises
ObserverError(r) == [kind |-> "ObserverError", by |-> "observer", n |-> r, message |-> "observer raised"]
NotFoundMessage(id) ==
    CASE id = Vision -> "Model not found: gemini-vision"
      [] id = Reasoning -> "Model not found: gemini-reasoning"
      [] OTHER -> "Model not found"
ModelNotFoundError(id) == [kind |-> "ModelNotFound", by |-> id, n |-> 0, message |-> NotFoundMessage(id)]

EmptyContext == [detections |-> NoOutput, set |-> FALSE]
DetectionsContext(d) == [detections |-> d, set |-> TRUE]

(* --------------------------- model registry ---------------------------- *)
\* ModelRegistry.models is a Map: a sequence of entries in insertion order
MapIndex(m, id) ==
    IF \E i \in 1..Len(m) : m[i].id = id
    THEN CHOOSE i \in 1..Len(m) : m[i].id = id
    ELSE 0

MapHas(m, id) == MapIndex(m, id) > 0

MapSet(m, id, reg) ==
    LET e == [id |-> id, model |-> reg.model, priority |-> reg.priority,
              fallbackFor |-> reg.fallbackFor, enabled |-> reg.enabled]
    IN IF MapHas(m, id) THEN [m EXCEPT ![MapIndex(m, id)] = e] ELSE Append(m, e)

MapDelete(m, id) == SelectSeq(m, LAMBDA e : e.id # id)

\* options.priority || 1, options.fallbackFor || null, options.enabled !== false
\* (options.priority is {} when omitted and {p} when given)
Registration(model, options) ==
    [model |-> model,
     priority |-> IF options.priority = {} \/ options.priority = {0} THEN 1
                  ELSE CHOOSE p \in options.priority : TRUE,
     fallbackFor |-> IF options.fallbackFor = Undef THEN NoId ELSE options.fallbackFor,
     enabled |-> options.enabled # "false"]

registerModels(m, id, model, options) == MapSet(m, id, Registration(model, options))

\* a disabled registration is not put on the chain
registerFallbacksEnabledOnly(f, id, model, options) ==
    LET registration == Registration(model, options)
    IN IF registration.fallbackFor # NoId /\ registration.enabled
       THEN [f EXCEPT ![registration.fallbackFor] = Append(@, id)]
       ELSE f

registerFallbacks(f, id, model, options) ==
    LET registration == Registration(model, options)
    IN IF registration.fallbackFor # NoId
       THEN [f EXCEPT ![registration.fallbackFor] = Append(@, id)]
       ELSE f

\* indexOf / splice(index, 1): removes the first occurrence
RemoveFirst(s, x) ==
    IF \E i \in 1..Len(s) : s[i] = x
    THEN LET i == CHOOSE k \in 1..Len(s) : s[k] = x /\ \A j \in 1..(k-1) : s[j] # x
         IN SubSeq(s, 1, i-1) \o SubSeq(s, i+1, Len(s))
    ELSE s

unregisterModels(m, id) == MapDelete(m, id)
unregisterFallbacks(f, id) == [k \in DOMAIN f |-> RemoveFirst(f[k], id)]

\* the enabled flag is not consulted
getIgnoringEnabled(m, id) ==
    IF MapHas(m, id) THEN m[MapIndex(m, id)].model ELSE NoModel

get(m, id) ==
    IF MapHas(m, id) /\ m[MapIndex(m, id)].enabled THEN m[MapIndex(m, id)].model ELSE NoModel

RECURSIVE MapGet(_, _, _)
MapGet(m, ids, k) ==
    IF k > Len(ids) THEN <<>> ELSE <<get(m, ids[k])>> \o MapGet(m, ids, k + 1)

\* model.getCapabilities(): GeminiVisionModel, GeminiReasoningModel, BaseModel default
CapabilitiesOf(model) ==
    CASE model = "gemini-vision" -> [type |-> "image", role |-> "detection"]
      [] model = "gemini-reasoning" -> [type |-> "image", role |-> "analysis"]
      [] OTHER -> [type |-> "unknown", role |-> "unknown"]

\* an unstable sort: of two entries of equal priority the later one comes first
RECURSIVE SortInsertTiesReversed(_, _)
SortInsertTiesReversed(sorted, x) ==
    IF sorted = <<>> THEN <<x>>
    ELSE IF sorted[Len(sorted)].priority > x.priority THEN Append(sorted, x)
    ELSE Append(SortInsertTiesReversed(SubSeq(sorted, 1, Len(sorted) - 1), x),
                sorted[Len(sorted)])

\* Array.prototype.sort((a, b) => b.priority - a.priority): stable, higher priority first
RECURSIVE SortInsert(_, _)
SortInsert(sorted, x) ==
    IF sorted = <<>> THEN <<x>>
    ELSE IF sorted[Len(sorted)].priority >= x.priority THEN Append(sorted, x)
    ELSE Append(SortInsert(SubSeq(sorted, 1, Len(sorted) - 1), x), sorted[Len(sorted)])

RECURSIVE SortByPriority(_, _)
SortByPriority(matches, k) ==
    IF k = 0 THEN <<>> ELSE SortInsert(SortByPriority(matches, k - 1), matches[k])

\* getByCapability({ type, role }); an unset filter field is Undef
getByCapability(m, filter) ==
    LET Matches(e) ==
            /\ e.enabled
            /\ filter.type = Undef \/ CapabilitiesOf(e.model).type = filter.type
            /\ filter.role = Undef \/ CapabilitiesOf(e.model).role = filter.role
        hits == SelectSeq(m, Matches)
        matches == [i \in 1..Len(hits) |->
                      [id |-> hits[i].id, model |-> hits[i].model, priority |-> hits[i].priority]]
    IN SortByPriority(matches, Len(matches))

\* the live fallbacks are returned ordered by descending priority
getFallbacksByPriority(m, f, id) ==
    LET fallbackIds == IF id \in DOMAIN f THEN f[id] ELSE <<>>
        live == SelectSeq(fallbackIds, LAMBDA fid : get(m, fid) # NoModel)
        ranked == [i \in 1..Len(live) |->
                     [model |-> get(m, live[i]), priority |-> m[MapIndex(m, live[i])].priority]]
        sorted == SortByPriority(ranked, Len(ranked))
    IN [i \in 1..Len(sorted) |-> sorted[i].model]

getFallbacks(m, f, id) ==
    LET fallbackIds == IF id \in DOMAIN f THEN f[id] ELSE <<>>
    IN SelectSeq(MapGet(m, fallbackIds, 1), LAMBDA x : x # NoModel)

(* --------------------------- PipelineResult ---------------------------- *)
\* outputs is an object: a function whose domain is the set of keys present
NewPipelineResult ==
    [steps |-> <<>>, outputs |-> <<>>, ended |-> FALSE, success |-> FALSE, error |-> NoError]

ObjectSet(o, key, value) ==
    [k \in (DOMAIN o) \cup {key} |-> IF k = key THEN value ELSE o[k]]

addStep(r, name, output) ==
    [r EXCEPT !.steps = Append(@, [name |-> name, success |-> TRUE, error |-> "none"]),
              !.outputs = ObjectSet(@, name, output)]

addError(r, name, error) ==
    [r EXCEPT !.steps = Append(@, [name |-> name, success |-> FALSE, error |-> error.message]),
              !.error = error]

complete(r, success) == [r EXCEPT !.ended = TRUE, !.success = success]

(* --------------------------- PipelineEngine ---------------------------- *)
\* const steps = [...] of executeImagePipeline
TotalSteps == 2
StepName(i) == IF i = 1 THEN "vision" ELSE "reasoning"
StepMessage(i) == IF i = 1 THEN "Scanning image..." ELSE "Analyzing safety..."
StepModelId(i) == IF i = 1 THEN Vision ELSE Reasoning

\* the closure returned by onProgress(callback): indexOf(callback), splice
Unsubscribed(cbs, callback) ==
    IF \E i \in 1..Len(cbs) : cbs[i].cb = callback
    THEN LET i == CHOOSE k \in 1..Len(cbs) :
                      cbs[k].cb = callback /\ \A j \in 1..(k-1) : cbs[j].cb # callback
         IN SubSeq(cbs, 1, i-1) \o SubSeq(cbs, i+1, Len(cbs))
    ELSE cbs

\* Array.prototype.forEach over progressCallbacks: the length is read once,
\* an index that no longer exists is skipped, an exception ends the loop.
\* beh[r] is what the callback of registration r does in this delivery.
RECURSIVE forEach(_, _, _, _, _)
forEach(cbs, k, len, beh, delivered) ==
    IF k > len THEN [cbs |-> cbs, delivered |-> delivered, raised |-> FALSE, error |-> NoError]
    ELSE IF k > Len(cbs) THEN forEach(cbs, k + 1, len, beh, delivered)
    ELSE LET e == cbs[k]
             d == Append(delivered, e.reg)
         IN CASE beh[e.reg] = "raise" ->
                   [cbs |-> cbs, delivered |-> d, raised |-> TRUE, error |-> ObserverError(e.reg)]
              [] beh[e.reg] = "unsub" ->
                   forEach(Unsubscribed(cbs, e.cb), k + 1, len, beh, d)
              [] OTHER -> forEach(cbs, k + 1, len, beh, d)

\* _emitProgress(step, total, message, status) on engine state s
emitProgress(s, step, message, status, beh) ==
    LET d == forEach(s.cbs, 1, Len(s.cbs), beh, <<>>)
        ev == [step |-> step, total |-> TotalSteps, message |-> message, status |-> status]
        dl == [event |-> Len(s.events) + 1, before |-> [i \in 1..Len(s.cbs) |-> s.cbs[i].reg],
               delivered |-> d.delivered, raised |-> d.raised,
               after |-> [i \in 1..Len(d.cbs) |-> d.cbs[i].reg],
               unsubscribed |-> {r \in DOMAIN beh : beh[r] = "unsub" /\
                                    \E i \in 1..Len(d.delivered) : d.delivered[i] = r}]
    IN [s EXCEPT !.cbs = d.cbs, !.events = Append(@, ev), !.deliveries = Append(@, dl),
                 !.raised = d.raised, !.thrown = d.error]

(* ------------------------------- state --------------------------------- *)
VARIABLES
    models,            \* ModelRegistry.models
    fallbacks,         \* ModelRegistry.fallbacks (a key without an entry holds <<>>)
    lastOp,            \* the latest call of a registry method, with what it returned
    health,            \* ModelRegistry.healthCheck: position of the call and its results
    progressCallbacks, \* PipelineEngine.progressCallbacks, entries [cb, reg]
    subs,              \* subs[r]: the callback captured by the r-th unsubscribe closure
    pc,                \* position of the executeImagePipeline call
    stepIdx,           \* the step whose runWithFallback call is active (0: none)
    cur,               \* the model whose analyze call is in flight
    candidates,        \* runWithFallback: const fallbacks
    fbIdx,             \* runWithFallback: position of the for-of loop
    primaryError,      \* runWithFallback: the caught error of the primary
    detections,        \* executeImagePipeline: const detections
    image,             \* executeImagePipeline: the argument
    result,            \* executeImagePipeline: const result
    thrown,            \* the error the executeImagePipeline promise rejected with
    events,            \* every _emitProgress call made
    deliveries,        \* the callbacks invoked by the _emitProgress calls of the latest step
    calls,             \* every analyze call made
    rwfLog,            \* every runWithFallback call with its outcome
    app,               \* app.js: AppState and the position of the runAnalysis call
    imageRun           \* imagePipeline.js: the locals of the ImagePipeline.execute call

vars == <<models, fallbacks, lastOp, health, progressCallbacks, subs, pc, stepIdx, cur, candidates, fbIdx,
          primaryError, detections, image, result, thrown, events, deliveries, calls,
          rwfLog, app, imageRun>>

registryVars == <<models, fallbacks, lastOp, health>>
runVars == <<pc, stepIdx, cur, candidates, fbIdx, primaryError, detections, image, result,
             thrown, events, calls, rwfLog>>

\* the engine-side state as one value, for the operators below
EngineState ==
    [cbs |-> progressCallbacks, pc |-> pc, stepIdx |-> stepIdx, cur |-> cur,
     candidates |-> candidates, fbIdx |-> fbIdx, primaryError |-> primaryError,
     detections |-> detections, image |-> image, result |-> result, thrown |-> thrown,
     events |-> events, deliveries |-> <<>>, calls |-> calls, rwfLog |-> rwfLog,
     raised |-> FALSE, exc |-> NoError]

Commit(s) ==
    /\ progressCallbacks' = s.cbs
    /\ pc' = s.pc
    /\ stepIdx' = s.stepIdx
    /\ cur' = s.cur
    /\ candidates' = s.candidates
    /\ fbIdx' = s.fbIdx
    /\ primaryError' = s.primaryError
    /\ detections' = s.detections
    /\ image' = s.image
    /\ result' = s.result
    /\ thrown' = s.thrown
    /\ events' = s.events
    /\ deliveries' = s.deliveries
    /\ calls' = s.calls
    /\ rwfLog' = s.rwfLog

(* ------------------ runWithFallback / executeImagePipeline -------------- *)
\* only the primary of step 2 is given the detections
StepContextPrimaryOnly(s, i) ==
    IF i = 1 \/ s.fbIdx > 0 THEN EmptyContext ELSE DetectionsContext(s.detections)

StepContext(s, i) == IF i = 1 THEN EmptyContext ELSE DetectionsContext(s.detections)

\* model.analyze(input, context) is called and awaited (eventsAtCall and eventsAtSettle
\* record how many progress events had been emitted when the call was made and settled)
callAnalyze(s, model, where) ==
    [s EXCEPT !.cur = model, !.pc = where,
              !.calls = Append(@, [step |-> s.stepIdx, model |-> model, input |-> s.image,
                                   context |-> StepContext(s, s.stepIdx), outcome |-> "pending",
                                   eventsAtCall |-> Len(s.events),
                                   eventsAtSettle |-> Len(s.events)]),
              !.rwfLog[Len(s.rwfLog)].tried = Append(@, model)]

\* the next attempt starts while the call in flight has not settled
settleCallUnobserved(s, outcome) == [s EXCEPT !.cur = NoModel]

\* the analyze call in flight settles
settleCall(s, outcome) ==
    [s EXCEPT !.calls[Len(s.calls)].outcome = outcome,
              !.calls[Len(s.calls)].eventsAtSettle = Len(s.events), !.cur = NoModel]

rwfReturn(s, output) ==
    [s EXCEPT !.rwfLog[Len(s.rwfLog)].status = "returned", !.rwfLog[Len(s.rwfLog)].output = output]

rwfThrow(s, error) ==
    [s EXCEPT !.rwfLog[Len(s.rwfLog)].status = "threw", !.rwfLog[Len(s.rwfLog)].error = error,
              !.exc = error]

\* the fallbacks are tried in reverse chain order
primaryFailedReversed(s, m, f, error) ==
    LET live == getFallbacks(m, f, StepModelId(s.stepIdx))
        fbs == [j \in 1..Len(live) |-> live[Len(live) + 1 - j]]
        s1 == [s EXCEPT !.candidates = fbs, !.primaryError = error, !.fbIdx = 1,
                        !.rwfLog[Len(s.rwfLog)].failedPrimary = TRUE,
                        !.rwfLog[Len(s.rwfLog)].chain = fbs,
                        !.rwfLog[Len(s.rwfLog)].primaryError = error]
    IN IF Len(fbs) = 0 THEN rwfThrow(s1, error) ELSE callAnalyze(s1, fbs[1], "AwaitFallback")

\* runWithFallback: catch (error) of the primary's analyze
primaryFailed(s, m, f, error) ==
    LET fbs == getFallbacks(m, f, StepModelId(s.stepIdx))
        s1 == [s EXCEPT !.candidates = fbs, !.primaryError = error, !.fbIdx = 1,
                        !.rwfLog[Len(s.rwfLog)].failedPrimary = TRUE,
                        !.rwfLog[Len(s.rwfLog)].chain = fbs,
                        !.rwfLog[Len(s.rwfLog)].primaryError = error]
    IN IF Len(fbs) = 0 THEN rwfThrow(s1, error) ELSE callAnalyze(s1, fbs[1], "AwaitFallback")

\* the error of the last fallback is raised instead of the primary's
fallbackFailedLastError(s) ==
    IF s.fbIdx < Len(s.candidates)
    THEN callAnalyze([s EXCEPT !.fbIdx = @ + 1], s.candidates[s.fbIdx + 1], "AwaitFallback")
    ELSE rwfThrow(s, AnalysisError(s.calls[Len(s.calls)].model, Len(s.calls)))

\* the remaining candidates are looked up again after every failed fallback
fallbackFailedRelookup(s) ==
    LET fbs == getFallbacks(models, fallbacks, StepModelId(s.stepIdx))
    IN IF s.fbIdx < Len(fbs)
       THEN callAnalyze([s EXCEPT !.fbIdx = @ + 1], fbs[s.fbIdx + 1], "AwaitFallback")
       ELSE rwfThrow(s, s.primaryError)

\* runWithFallback: catch (fallbackError) inside the for-of loop
fallbackFailed(s) ==
    IF s.fbIdx < Len(s.candidates)
    THEN callAnalyze([s EXCEPT !.fbIdx = @ + 1], s.candidates[s.fbIdx + 1], "AwaitFallback")
    ELSE rwfThrow(s, s.primaryError)

\* a missing primary is treated as a failed primary: its fallbacks are tried
runWithFallbackTryFallbacks(s, m, i) ==
    LET modelId == StepModelId(i)
        model == get(m, modelId)
        s1 == [s EXCEPT !.stepIdx = i, !.candidates = <<>>, !.fbIdx = 0, !.primaryError = NoError,
                        !.rwfLog = Append(@, [step |-> i, primary |-> modelId, tried |-> <<>>,
                                              failedPrimary |-> FALSE, chain |-> <<>>,
                                              status |-> "pending", output |-> NoOutput,
                                              error |-> NoError, primaryError |-> NoError])]
    IN IF model = NoModel
       THEN primaryFailed(s1, m, fallbacks, ModelNotFoundError(modelId))
       ELSE callAnalyze(s1, model, "AwaitPrimary")

\* runWithFallback(modelId, input, context) up to its first await
runWithFallback(s, m, i) ==
    LET modelId == StepModelId(i)
        model == get(m, modelId)
        s1 == [s EXCEPT !.stepIdx = i, !.candidates = <<>>, !.fbIdx = 0, !.primaryError = NoError,
                        !.rwfLog = Append(@, [step |-> i, primary |-> modelId, tried |-> <<>>,
                                              failedPrimary |-> FALSE, chain |-> <<>>,
                                              status |-> "pending", output |-> NoOutput,
                                              error |-> NoError, primaryError |-> NoError])]
    IN IF model = NoModel
       THEN rwfThrow(s1, ModelNotFoundError(modelId))
       ELSE callAnalyze(s1, model, "AwaitPrimary")

\* the loading event of step i is emitted after runWithFallback was called
beginStepCallFirst(s, m, i, beh) ==
    LET s1 == runWithFallback(s, m, i)
        s2 == emitProgress(s1, i, StepMessage(i), "loading", beh)
    IN IF s2.raised THEN [s2 EXCEPT !.exc = s2.thrown, !.thrown = NoError] ELSE s2

\* executeImagePipeline: _emitProgress(i, ...) and the call of runWithFallback of step i
beginStep(s, m, i, beh) ==
    LET s1 == emitProgress(s, i, StepMessage(i), "loading", beh)
    IN IF s1.raised THEN [s1 EXCEPT !.exc = s1.thrown, !.thrown = NoError]
       ELSE runWithFallback(s1, m, i)

\* executeImagePipeline: the try block after runWithFallback of step s.stepIdx returned
stepReturned(s, m, output, beh) ==
    IF s.stepIdx = 1
    THEN beginStep([s EXCEPT !.detections = output,
                             !.result = addStep(@, StepName(1), output)], m, 2, beh)
    ELSE LET s1 == [s EXCEPT !.result = addStep(@, StepName(2), output)]
             s2 == emitProgress(s1, TotalSteps, "Analysis complete", "success", beh)
         IN IF s2.raised THEN [s2 EXCEPT !.exc = s2.thrown, !.thrown = NoError]
            ELSE [s2 EXCEPT !.result = complete(@, TRUE), !.pc = "Completed"]

\* executeImagePipeline: catch (error)
catchBlock(s, beh) ==
    LET s1 == emitProgress(s, 0, s.exc.message, "error", beh)
    IN IF s1.raised THEN [s1 EXCEPT !.pc = "Rejected"]
       ELSE [s1 EXCEPT !.result = complete([@ EXCEPT !.error = s.exc], FALSE), !.pc = "Failed"]

\* a failed first step does not end the run: the second step is started
FinishBestEffort(s, beh) ==
    LET t == IF s.exc # NoError /\ s.stepIdx = 1 /\ s.rwfLog # <<>>
             THEN beginStep([s EXCEPT !.exc = NoError], models, 2, beh)
             ELSE s
    IN Commit(IF t.exc # NoError THEN catchBlock(t, beh) ELSE t)

\* the rest of the synchronous turn: an exception of the try block reaches the catch block
Finish(s, beh) == Commit(IF s.exc # NoError THEN catchBlock(s, beh) ELSE s)

\* the choices of what each registered callback does in one delivery
BehaviourChoices ==
    [{progressCallbacks[i].reg : i \in 1..Len(progressCallbacks)} -> Behaviours]

(* ------------------------------ actions -------------------------------- *)
\* pipelineEngine.executeImagePipeline(image) is called
Execute(img, b1, b2) ==
    /\ pc = "Pending"
    /\ Finish(beginStep([EngineState EXCEPT !.image = img, !.result = NewPipelineResult],
                        models, 1, b1), b2)
    /\ UNCHANGED <<app, imageRun, registryVars, subs>>

\* the analyze call in flight (primary or fallback) resolves
AnalyzeSucceeds(b1, b2) ==
    /\ pc \in {"AwaitPrimary", "AwaitFallback"}
    /\ LET output == OutputOf(cur, Len(calls))
       IN Finish(stepReturned(rwfReturn(settleCall(EngineState, "ok"), output),
                              models, output, b1), b2)
    /\ UNCHANGED <<app, imageRun, registryVars, subs>>

\* the primary's analyze call rejects
PrimaryFails(b) ==
    /\ pc = "AwaitPrimary"
    /\ Finish(primaryFailed(settleCall(EngineState, "failed"), models, fallbacks,
                            AnalysisError(cur, Len(calls))), b)
    /\ UNCHANGED <<app, imageRun, registryVars, subs>>

\* a fallback's analyze call rejects
FallbackFails(b) ==
    /\ pc = "AwaitFallback"
    /\ Finish(fallbackFailed(settleCall(EngineState, "failed")), b)
    /\ UNCHANGED <<app, imageRun, registryVars, subs>>

\* pipelineEngine.onProgress(callback)
OnProgress(callback) ==
    /\ Len(subs) < MaxSubs
    /\ progressCallbacks' = Append(progressCallbacks, [cb |-> callback, reg |-> Len(subs) + 1])
    /\ subs' = Append(subs, callback)
    /\ deliveries' = <<>>
    /\ UNCHANGED <<app, imageRun, registryVars, runVars>>

\* the closure returned by the r-th onProgress call is called
Unsubscribe(r) ==
    /\ r \in 1..Len(subs)
    /\ progressCallbacks' = Unsubscribed(progressCallbacks, subs[r])
    /\ deliveries' = <<>>
    /\ UNCHANGED <<app, imageRun, registryVars, runVars, subs>>

(* ---------------------- the registry before the run --------------------- *)
\* what the set-up code may have done with one id: nothing, or one register call
NoCall == [call |-> FALSE, priority |-> {}, fallbackFor |-> Undef, enabled |-> Undef]
PrimaryCalls ==
    {NoCall} \cup {[call |-> TRUE, priority |-> {}, fallbackFor |-> Undef, enabled |-> e] :
                     e \in {Undef, "false"}}
FallbackCalls ==
    {NoCall} \cup {[call |-> TRUE, priority |-> {}, fallbackFor |-> p, enabled |-> e] :
                     p \in {Vision, Reasoning}, e \in {Undef, "false"}}
SetupCalls(id) == IF id \in {Vision, Reasoning} THEN PrimaryCalls ELSE FallbackCalls
SetupOrders == {<<Vision, Reasoning, "fb1", "fb2">>, <<"fb2", "fb1", Vision, Reasoning>>}

RECURSIVE Setup(_, _, _, _, _)
Setup(order, choice, k, m, f) ==
    IF k > Len(order) THEN [models |-> m, fallbacks |-> f]
    ELSE LET id == order[k]
             o == choice[id]
         IN IF o.call
            THEN Setup(order, choice, k + 1, registerModels(m, id, InstanceOf(id), o),
                       registerFallbacks(f, id, InstanceOf(id), o))
            ELSE Setup(order, choice, k + 1, m, f)

EmptyFallbacks == [id \in ModelIds |-> <<>>]
NoOp == [op |-> "none", arg |-> NoId, ret |-> <<>>, model |-> NoModel, enabled |-> Undef]
NoHealthCheck == [state |-> "idle", pos |-> 0, current |-> NoId, model |-> NoModel,
                  enabled |-> FALSE, results |-> <<>>]

\* the observer list after onProgress was called with each element of cs
Subscribed(cs) == [i \in 1..Len(cs) |-> [cb |-> cs[i], reg |-> i]]

CallbackSeqs(n) == UNION {[1..k -> Callbacks] : k \in 0..n}

\* AppState of app.js before any runAnalysis call
NoRunAnalysis ==
    [isProcessing |-> FALSE, currentImage |-> NoInput, lastResult |-> <<>>, at |-> "idle",
     unsubscribe |-> <<>>, n |-> 0, last |-> "none", overlap |-> FALSE]

\* ImagePipeline.execute has not been called
NoExecute ==
    [at |-> "idle", image |-> NoInput,
     results |-> [steps |-> <<>>, success |-> FALSE, error |-> NoError],
     lookups |-> <<>>, calls |-> <<>>, events |-> <<>>, thrown |-> NoError]

InitRun ==
    /\ app = NoRunAnalysis
    /\ imageRun = NoExecute
    /\ pc = "Pending"
    /\ stepIdx = 0
    /\ cur = NoModel
    /\ candidates = <<>>
    /\ fbIdx = 0
    /\ primaryError = NoError
    /\ detections = NoOutput
    /\ image = NoInput
    /\ result = NewPipelineResult
    /\ thrown = NoError
    /\ events = <<>>
    /\ deliveries = <<>>
    /\ calls = <<>>
    /\ rwfLog = <<>>

\* any registry the set-up calls produce, at most InitSubs observers, no run started
Init ==
    /\ \E order \in SetupOrders :
         \E choice \in [ModelIds -> FallbackCalls \cup PrimaryCalls] :
            /\ \A id \in ModelIds : choice[id] \in SetupCalls(id)
            /\ LET r == Setup(order, choice, 1, <<>>, EmptyFallbacks)
               IN models = r.models /\ fallbacks = r.fallbacks
    /\ lastOp = NoOp
    /\ health = NoHealthCheck
    /\ \E cs \in CallbackSeqs(InitSubs) :
         /\ subs = cs
         /\ progressCallbacks = Subscribed(cs)
    /\ InitRun

\* one run of executeImagePipeline
Next ==
    \/ \E img \in Inputs : \E b1, b2 \in BehaviourChoices : Execute(img, b1, b2)
    \/ \E b1, b2 \in BehaviourChoices : AnalyzeSucceeds(b1, b2)
    \/ \E b \in BehaviourChoices : PrimaryFails(b)
    \/ \E b \in BehaviourChoices : FallbackFails(b)

Spec == Init /\ [][Next]_vars

\* app.js registerModels(), with or without a fallback for the vision model
AppCall == [call |-> TRUE, priority |-> {1}, fallbackFor |-> Undef, enabled |-> Undef]
AppFallbackCall == [call |-> TRUE, priority |-> {}, fallbackFor |-> Vision, enabled |-> Undef]
AppSetups ==
    {[id \in ModelIds |-> IF id \in {Vision, Reasoning} THEN AppCall ELSE NoCall],
     [id \in ModelIds |-> IF id \in {Vision, Reasoning} THEN AppCall
                          ELSE IF id = "fb1" THEN AppFallbackCall ELSE NoCall]}

InitObservers ==
    /\ \E choice \in AppSetups :
         LET r == Setup(<<Vision, Reasoning, "fb1", "fb2">>, choice, 1, <<>>, EmptyFallbacks)
         IN models = r.models /\ fallbacks = r.fallbacks
    /\ lastOp = NoOp
    /\ health = NoHealthCheck
    /\ subs = <<>>
    /\ progressCallbacks = <<>>
    /\ InitRun

\* one run, with observers subscribing and unsubscribing at any time
NextObservers ==
    \/ Next
    \/ \E c \in Callbacks : OnProgress(c)
    \/ \E r \in 1..MaxSubs : Unsubscribe(r)

SpecObservers == InitObservers /\ [][NextObservers]_vars

(* ------------------------- the registry alone --------------------------- *)
\* everything outside the registry
engineVars == <<progressCallbacks, subs, deliveries, runVars, app, imageRun>>

\* the Map iterator of a healthCheck call in flight, after the entry of id is deleted
IteratorAfterDelete(h, m, id) ==
    IF h.state = "running" /\ MapHas(m, id) /\ MapIndex(m, id) <= h.pos
    THEN [h EXCEPT !.pos = @ - 1]
    ELSE h

\* modelRegistry.register(id, model, options)
Register(id, model, options) ==
    /\ options.fallbackFor # Undef => Len(fallbacks[options.fallbackFor]) < MaxChain
    /\ models' = registerModels(models, id, model, options)
    /\ fallbacks' = registerFallbacks(fallbacks, id, model, options)
    /\ lastOp' = [op |-> "register", arg |-> id, ret |-> <<>>, model |-> model,
                  enabled |-> options.enabled]
    /\ UNCHANGED <<health, engineVars>>

\* modelRegistry.unregister(id)
Unregister(id) ==
    /\ models' = unregisterModels(models, id)
    /\ fallbacks' = unregisterFallbacks(fallbacks, id)
    /\ health' = IteratorAfterDelete(health, models, id)
    /\ lastOp' = [NoOp EXCEPT !.op = "unregister", !.arg = id]
    /\ UNCHANGED engineVars

\* modelRegistry.get(id)
Get(id) ==
    /\ lastOp' = [NoOp EXCEPT !.op = "get", !.arg = id, !.ret = <<get(models, id)>>]
    /\ UNCHANGED <<models, fallbacks, health, engineVars>>

\* modelRegistry.getFallbacks(id)
GetFallbacks(id) ==
    /\ lastOp' = [NoOp EXCEPT !.op = "getFallbacks", !.arg = id,
                              !.ret = getFallbacks(models, fallbacks, id)]
    /\ UNCHANGED <<models, fallbacks, health, engineVars>>

\* modelRegistry.getByCapability(filter)
GetByCapability(filter) ==
    /\ lastOp' = [NoOp EXCEPT !.op = "getByCapability", !.arg = filter,
                              !.ret = getByCapability(models, filter)]
    /\ UNCHANGED <<models, fallbacks, health, engineVars>>

\* the register calls of SpecRegistry: the primary, a fallback that may change its
\* primary, a fallback with an explicit priority
RegistryIds == {Vision, "fb1", "fb2"}
ChainOptions(id) ==
    CASE id = Vision ->
           {[call |-> TRUE, priority |-> {}, fallbackFor |-> Undef, enabled |-> e] :
              e \in {Undef, "false"}}
      [] id = "fb1" ->
           {[call |-> TRUE, priority |-> {}, fallbackFor |-> f, enabled |-> e] :
              f \in {Undef, Vision, Reasoning}, e \in {Undef, "false"}}
      [] OTHER ->
           {[call |-> TRUE, priority |-> p, fallbackFor |-> f, enabled |-> e] :
              p \in {{}, {2}}, f \in {Undef, Vision}, e \in {Undef, "false"}}

InitRegistry ==
    /\ models = <<>>
    /\ fallbacks = EmptyFallbacks
    /\ lastOp = NoOp
    /\ health = NoHealthCheck
    /\ subs = <<>>
    /\ progressCallbacks = <<>>
    /\ InitRun

NextRegistry ==
    \/ \E id \in RegistryIds : \E o \in ChainOptions(id) : Register(id, InstanceOf(id), o)
    \/ \E id \in RegistryIds : Unregister(id)
    \/ \E id \in RegistryIds : Get(id)
    \/ \E id \in {Vision, Reasoning} : GetFallbacks(id)

SpecRegistry == InitRegistry /\ [][NextRegistry]_vars

(* ------------- the registry changing while a run is in flight ----------- *)
\* the register calls made during a run: a fallback for the vision model
InflightIds == {"fb1", "fb2"}
InflightOptions ==
    {[call |-> TRUE, priority |-> {}, fallbackFor |-> Vision, enabled |-> e] :
       e \in {Undef, "false"}}

\* app.js registry, no observer, no run started
InitInflight ==
    /\ \E choice \in AppSetups :
         LET r == Setup(<<Vision, Reasoning, "fb1", "fb2">>, choice, 1, <<>>, EmptyFallbacks)
         IN models = r.models /\ fallbacks = r.fallbacks
    /\ lastOp = NoOp
    /\ health = NoHealthCheck
    /\ subs = <<>>
    /\ progressCallbacks = <<>>
    /\ InitRun

\* one run; while an analyze call is awaited other code registers and unregisters fallbacks
NextInflight ==
    \/ Next
    \/ /\ pc \in {"AwaitPrimary", "AwaitFallback"}
       /\ \E id \in InflightIds : \E o \in InflightOptions : Register(id, InstanceOf(id), o)
    \/ /\ pc \in {"AwaitPrimary", "AwaitFallback"}
       /\ \E id \in InflightIds : Unregister(id)

SpecInflight == InitInflight /\ [][NextInflight]_vars

(* --------------------------- app.js runAnalysis -------------------------- *)
\* the arrow function the reg-th onProgress call of runAnalysis is given (a new function
\* object per call), which calls updateProgress
AppCallback(reg) == "updateProgress" \o ToString(reg)

\* the locals of an executeImagePipeline call that does not exist (yet, or any more)
NoRun ==
    [cbs |-> <<>>, pc |-> "Pending", stepIdx |-> 0, cur |-> NoModel, candidates |-> <<>>,
     fbIdx |-> 0, primaryError |-> NoError, detections |-> NoOutput, image |-> NoInput,
     result |-> NewPipelineResult, thrown |-> NoError, events |-> <<>>, deliveries |-> <<>>,
     calls |-> <<>>, rwfLog |-> <<>>, raised |-> FALSE, exc |-> NoError]

\* the guard is never taken
isLockedNever(a) == FALSE

\* if (AppState.isProcessing) return
isLocked(a) == a.isProcessing

\* what updateProgress does in one delivery: it returns, or raises (message.toUpperCase()
\* of a message that is no string)
AppBehaviourChoices(regs) == [regs -> {"ok", "raise"}]

\* runAnalysis(img) is called: up to the await of executeImagePipeline
RunAnalysis(img, b1, b2) ==
    /\ app.n < MaxRuns
    /\ IF isLocked(app)
       THEN /\ app' = [app EXCEPT !.n = @ + 1, !.last = "ignored"]
            /\ UNCHANGED <<registryVars, progressCallbacks, subs, deliveries, runVars, imageRun>>
       ELSE IF app.at = "awaiting"
       THEN /\ app' = [app EXCEPT !.n = @ + 1, !.last = "started", !.overlap = TRUE]
            /\ UNCHANGED <<registryVars, progressCallbacks, subs, deliveries, runVars, imageRun>>
       ELSE LET reg == Len(subs) + 1
                s == [EngineState EXCEPT
                        !.cbs = Append(@, [cb |-> AppCallback(reg), reg |-> reg]),
                        !.image = img, !.result = NewPipelineResult]
            IN /\ Finish(beginStep(s, models, 1, b1), b2)
               /\ subs' = Append(subs, AppCallback(reg))
               /\ app' = [app EXCEPT !.isProcessing = TRUE, !.currentImage = img,
                                     !.at = "awaiting", !.unsubscribe = <<reg>>,
                                     !.n = @ + 1, !.last = "started"]
               /\ UNCHANGED <<registryVars, imageRun>>

\* the promise of executeImagePipeline settled: the rest of runAnalysis, with its catch
\* and finally blocks (an exception of the rendering code ends in the same finally)
RunAnalysisResumes ==
    /\ app.at = "awaiting"
    /\ pc \in {"Completed", "Failed", "Rejected"}
    /\ IF pc = "Rejected"
       THEN /\ Commit([NoRun EXCEPT !.cbs = progressCallbacks])
            /\ app' = [app EXCEPT !.isProcessing = FALSE, !.at = "idle",
                                  !.unsubscribe = <<>>, !.last = "finished"]
       ELSE /\ Commit([NoRun EXCEPT
                         !.cbs = Unsubscribed(progressCallbacks, subs[app.unsubscribe[1]])])
            /\ app' = [app EXCEPT !.isProcessing = FALSE, !.at = "idle",
                                  !.unsubscribe = <<>>, !.last = "finished",
                                  !.lastResult = <<result>>]
    /\ UNCHANGED <<registryVars, subs, imageRun>>

\* runAnalysis calls at any time, and the runs they start
NextApp ==
    \/ \E img \in Inputs :
          \E b1, b2 \in AppBehaviourChoices(1..(Len(subs) + 1)) : RunAnalysis(img, b1, b2)
    \/ \E b1, b2 \in AppBehaviourChoices(1..Len(subs)) : AnalyzeSucceeds(b1, b2)
    \/ \E b \in AppBehaviourChoices(1..Len(subs)) : PrimaryFails(b)
    \/ \E b \in AppBehaviourChoices(1..Len(subs)) : FallbackFails(b)
    \/ RunAnalysisResumes

SpecApp == InitInflight /\ [][NextApp]_vars

(* ----------------------- ImagePipeline.execute -------------------------- *)
\* this.steps of the ImagePipeline constructor
ImageSteps == <<"detect", "analyze">>

\* new Error('Vision model not available') / new Error('Reasoning model not available')
NotAvailableError(id) ==
    [kind |-> "NotAvailable", by |-> id, n |-> 0,
     message |-> IF id = Vision THEN "Vision model not available"
                 ELSE "Reasoning model not available"]

\* what options.onProgress does when it is invoked: it returns (as the default no-op
\* does) or raises
OnProgressBehaviours == {"ok", "raise"}

\* onProgress(step, this.steps.length, message, status) is invoked
imageEmit(p, step, message, status) ==
    [p EXCEPT !.events = Append(@, [step |-> step, total |-> Len(ImageSteps),
                                    message |-> message, status |-> status])]

\* catch (error), and the return statement if the catch block ends normally
imageCatch(p, error, bErr) ==
    LET p1 == imageEmit([p EXCEPT !.results.success = FALSE, !.results.error = error],
                        0, error.message, "error")
    IN IF bErr = "raise"
       THEN [p1 EXCEPT !.at = "rejected", !.thrown = ObserverError(0)]
       ELSE [p1 EXCEPT !.at = "returned"]

\* modelRegistry.get(id), and analyze(image, context) of the model it returned
imageCall(p, m, id, context, where, bErr) ==
    LET p1 == [p EXCEPT !.lookups = Append(@, id)]
        model == get(m, id)
    IN IF model = NoModel
       THEN imageCatch(p1, NotAvailableError(id), bErr)
       ELSE [p1 EXCEPT !.at = where,
                       !.calls = Append(@, [model |-> model, input |-> p.image,
                                            context |-> context, outcome |-> "pending"])]

\* execute(image, options) up to its first await
imageExecute(m, img, b1, bErr) ==
    LET p == imageEmit([NoExecute EXCEPT !.image = img], 1,
                       "Scanning for objects and hazards...", "loading")
    IN IF b1 = "raise" THEN imageCatch(p, ObserverError(0), bErr)
       ELSE imageCall(p, m, Vision, EmptyContext, "awaitDetect", bErr)

imageSettle(p, outcome) == [p EXCEPT !.calls[Len(p.calls)].outcome = outcome]

\* the detector's analyze resolved: step 1 is recorded and step 2 begins
imageDetected(p, m, output, b2, bErr) ==
    LET p1 == imageEmit([imageSettle(p, "ok") EXCEPT
                            !.results.steps = ObjectSet(@, "detect", output)],
                        2, "Analyzing safety conditions...", "loading")
    IN IF b2 = "raise" THEN imageCatch(p1, ObserverError(0), bErr)
       ELSE imageCall(p1, m, Reasoning, DetectionsContext(output), "awaitAnalyze", bErr)

\* a failed detection does not end the call: the analysis step is run without detections
imageDetectFailedContinue(p, error, bErr) ==
    imageCall(imageSettle(p, "failed"), models, Reasoning, EmptyContext, "awaitAnalyze", bErr)

\* the detector's analyze rejected
imageDetectFailed(p, error, bErr) == imageCatch(imageSettle(p, "failed"), error, bErr)

\* the analyzer's analyze resolved
imageAnalyzed(p, output, bSuccess, bErr) ==
    LET p1 == imageEmit([imageSettle(p, "ok") EXCEPT
                            !.results.steps = ObjectSet(@, "analyze", output),
                            !.results.success = TRUE],
                        Len(ImageSteps), "Analysis complete", "success")
    IN IF bSuccess = "raise" THEN imageCatch(p1, ObserverError(0), bErr)
       ELSE [p1 EXCEPT !.at = "returned"]

\* the analyzer's analyze rejected
imageAnalyzeFailed(p, error, bErr) == imageCatch(imageSettle(p, "failed"), error, bErr)

\* imagePipeline.execute(img, options) is called
ImageExecute(img, b1, bErr) ==
    /\ imageRun.at = "idle"
    /\ imageRun' = imageExecute(models, img, b1, bErr)
    /\ UNCHANGED <<registryVars, progressCallbacks, subs, deliveries, runVars, app>>

DetectSucceeds(b2, bErr) ==
    /\ imageRun.at = "awaitDetect"
    /\ imageRun' = imageDetected(imageRun, models, OutputOf(InstanceOf(Vision), 1), b2, bErr)
    /\ UNCHANGED <<registryVars, progressCallbacks, subs, deliveries, runVars, app>>

DetectFails(bErr) ==
    /\ imageRun.at = "awaitDetect"
    /\ imageRun' = imageDetectFailed(imageRun, AnalysisError(InstanceOf(Vision), 1), bErr)
    /\ UNCHANGED <<registryVars, progressCallbacks, subs, deliveries, runVars, app>>

AnalysisSucceeds(bSuccess, bErr) ==
    /\ imageRun.at = "awaitAnalyze"
    /\ imageRun' = imageAnalyzed(imageRun, OutputOf(InstanceOf(Reasoning), Len(imageRun.calls)),
                                 bSuccess, bErr)
    /\ UNCHANGED <<registryVars, progressCallbacks, subs, deliveries, runVars, app>>

AnalysisFails(bErr) ==
    /\ imageRun.at = "awaitAnalyze"
    /\ imageRun' = imageAnalyzeFailed(imageRun,
                                      AnalysisError(InstanceOf(Reasoning), Len(imageRun.calls)),
                                      bErr)
    /\ UNCHANGED <<registryVars, progressCallbacks, subs, deliveries, runVars, app>>

\* any registry the set-up calls produce, no execute call made
InitImage ==
    /\ \E order \in SetupOrders :
         \E choice \in [ModelIds -> FallbackCalls \cup PrimaryCalls] :
            /\ \A id \in ModelIds : choice[id] \in SetupCalls(id)
            /\ LET r == Setup(order, choice, 1, <<>>, EmptyFallbacks)
               IN models = r.models /\ fallbacks = r.fallbacks
    /\ lastOp = NoOp
    /\ health = NoHealthCheck
    /\ subs = <<>>
    /\ progressCallbacks = <<>>
    /\ InitRun

\* one call of ImagePipeline.execute
NextImage ==
    \/ \E img \in Inputs : \E b1, bErr \in OnProgressBehaviours : ImageExecute(img, b1, bErr)
    \/ \E b2, bErr \in OnProgressBehaviours : DetectSucceeds(b2, bErr)
    \/ \E bErr \in OnProgressBehaviours : DetectFails(bErr)
    \/ \E bSuccess, bErr \in OnProgressBehaviours : AnalysisSucceeds(bSuccess, bErr)
    \/ \E bErr \in OnProgressBehaviours : AnalysisFails(bErr)

SpecImage == InitImage /\ [][NextImage]_vars

(* ------------------------ a PipelineResult alone ------------------------ *)
\* result.addStep(name, output, duration)
ResultAddStep(name, output) ==
    /\ Len(result.steps) < MaxRecords
    /\ result' = addStep(result, name, output)
    /\ UNCHANGED <<app, imageRun, registryVars, progressCallbacks, subs, deliveries>>
    /\ UNCHANGED <<pc, stepIdx, cur, candidates, fbIdx, primaryError, detections, image,
                   thrown, events, calls, rwfLog>>

\* result.addError(name, error, duration)
ResultAddError(name, error) ==
    /\ Len(result.steps) < MaxRecords
    /\ result' = addError(result, name, error)
    /\ UNCHANGED <<app, imageRun, registryVars, progressCallbacks, subs, deliveries>>
    /\ UNCHANGED <<pc, stepIdx, cur, candidates, fbIdx, primaryError, detections, image,
                   thrown, events, calls, rwfLog>>

\* result.complete(success)
ResultComplete(success) ==
    /\ result' = complete(result, success)
    /\ UNCHANGED <<app, imageRun, registryVars, progressCallbacks, subs, deliveries>>
    /\ UNCHANGED <<pc, stepIdx, cur, candidates, fbIdx, primaryError, detections, image,
                   thrown, events, calls, rwfLog>>

\* result.error = error
ResultAssignError(error) ==
    /\ result' = [result EXCEPT !.error = error]
    /\ UNCHANGED <<app, imageRun, registryVars, progressCallbacks, subs, deliveries>>
    /\ UNCHANGED <<pc, stepIdx, cur, candidates, fbIdx, primaryError, detections, image,
                   thrown, events, calls, rwfLog>>

\* the arguments of the calls of SpecResult
ResultOutputs == {OutputOf(Vision, 1), OutputOf(Reasoning, 2)}
ResultErrors == {AnalysisError(Vision, 1), ModelNotFoundError(Reasoning)}

\* a new PipelineResult and any calls of its methods
NextResult ==
    \/ \E i \in 1..TotalSteps : \E output \in ResultOutputs : ResultAddStep(StepName(i), output)
    \/ \E i \in 1..TotalSteps : \E error \in ResultErrors : ResultAddError(StepName(i), error)
    \/ \E success \in BOOLEAN : ResultComplete(success)
    \/ \E error \in ResultErrors : ResultAssignError(error)

SpecResult == InitRegistry /\ [][NextResult]_vars

\* the register calls of SpecPriority: every id with its own instance, enabled, with
\* priority omitted or given as 0, 1 or 2
PriorityOptions ==
    {[call |-> TRUE, priority |-> p, fallbackFor |-> Undef, enabled |-> Undef] :
       p \in {{}, {0}, {1}, {2}}}
AnyFilter == [type |-> Undef, role |-> Undef]

NextPriority ==
    \/ \E id \in RegistryIds : \E o \in PriorityOptions : Register(id, InstanceOf(id), o)
    \/ \E id \in RegistryIds : Unregister(id)
    \/ GetByCapability(AnyFilter)

SpecPriority == InitRegistry /\ [][NextPriority]_vars

(* ----------------------- ModelRegistry.healthCheck ---------------------- *)
\* what model.healthCheck() does: the vision model resolves to !!Config.keys.vision (a key
\* is configured), the reasoning model to !!Config.keys.reasoning (no key is configured),
\* a model that keeps the BaseModel default raises
HealthOutcome(model) ==
    CASE model = InstanceOf(Vision) -> "true"
      [] model = InstanceOf(Reasoning) -> "false"
      [] OTHER -> "raise"
HealthErrorMessage == "Subclass must implement healthCheck()"
NoMessage == "none"

\* results[id] = entry: a new key is appended, an existing key keeps its place
ResultsSet(r, e) ==
    IF \E i \in 1..Len(r) : r[i].id = e.id
    THEN [i \in 1..Len(r) |-> IF r[i].id = e.id THEN e ELSE r[i]]
    ELSE Append(r, e)

\* the for-of loop over this.models.entries() takes the next entry and calls its model's
\* healthCheck, or ends and the call returns results
healthNext(h, m) ==
    IF h.pos < Len(m)
    THEN [h EXCEPT !.state = "running", !.pos = @ + 1, !.current = m[h.pos + 1].id,
                   !.model = m[h.pos + 1].model, !.enabled = m[h.pos + 1].enabled]
    ELSE [h EXCEPT !.state = "done", !.current = NoId, !.model = NoModel, !.enabled = FALSE]

healthStart(m) == healthNext(NoHealthCheck, m)

\* the entry the try/catch body of the loop stores for the awaited model health check
healthRecord(h, outcome) ==
    IF outcome = "raise"
    THEN [id |-> h.current, healthy |-> FALSE, enabled |-> h.enabled,
          error |-> HealthErrorMessage]
    ELSE [id |-> h.current, healthy |-> outcome = "true", enabled |-> h.enabled,
          error |-> NoMessage]

healthSettleAbortOnRaise(h, m, outcome) ==
    IF outcome = "raise"
    THEN [h EXCEPT !.state = "done", !.current = NoId, !.model = NoModel, !.enabled = FALSE]
    ELSE healthNext([h EXCEPT !.results = ResultsSet(@, healthRecord(h, outcome))], m)

healthSettle(h, m, outcome) ==
    healthNext([h EXCEPT !.results = ResultsSet(@, healthRecord(h, outcome))], m)

\* modelRegistry.healthCheck() is called
HealthCheck ==
    /\ health.state # "running"
    /\ health' = healthStart(models)
    /\ lastOp' = [NoOp EXCEPT !.op = "healthCheck"]
    /\ UNCHANGED <<models, fallbacks, engineVars>>

\* the model health check that healthCheck awaits settles
HealthSettles ==
    /\ health.state = "running"
    /\ health' = healthSettle(health, models, HealthOutcome(health.model))
    /\ UNCHANGED <<models, fallbacks, lastOp, engineVars>>

\* the register calls of SpecHealth: no fallbacks, default priority
HealthIds == {Vision, Reasoning, "fb1"}
HealthOptions ==
    {[call |-> TRUE, priority |-> {}, fallbackFor |-> Undef, enabled |-> e] :
       e \in {Undef, "false"}}

\* the registry is set up before a healthCheck call and may change while one is in flight
NextHealth ==
    \/ /\ health.state # "done"
       /\ \E id \in HealthIds : \E o \in HealthOptions : Register(id, InstanceOf(id), o)
    \/ /\ health.state # "done"
       /\ \E id \in HealthIds : Unregister(id)
    \/ HealthCheck
    \/ HealthSettles

SpecHealth == InitRegistry /\ [][NextHealth]_vars

\* the register calls of SpecCapability: any instance, any priority, never a fallback
Instances == {InstanceOf(Vision), InstanceOf(Reasoning), InstanceOf("fb1")}
CapabilityOptions ==
    {[call |-> TRUE, priority |-> p, fallbackFor |-> Undef, enabled |-> e] :
       p \in {{}, {0}, {2}}, e \in {Undef, "false"}}
Filters == [type : {Undef, "image"}, role : {Undef, "detection", "analysis"}]

NextCapability ==
    \/ \E id \in RegistryIds : \E model \in Instances : \E o \in CapabilityOptions :
          Register(id, model, o)
    \/ \E id \in RegistryIds : Unregister(id)
    \/ \E id \in RegistryIds : Get(id)
    \/ \E filter \in Filters : GetByCapability(filter)

SpecCapability == InitRegistry /\ [][NextCapability]_vars

(* ============================ properties =============================== *)
\* the registry as the documentation describes it, independent of get/getFallbacks
Registered(id) == \E i \in 1..Len(models) : models[i].id = id
Available(id) == \E i \in 1..Len(models) : models[i].id = id /\ models[i].enabled
ModelOf(id) == (CHOOSE e \in {models[i] : i \in 1..Len(models)} : e.id = id).model
LiveChain(id) ==
    LET ids == SelectSeq(fallbacks[id], Available)
    IN [j \in 1..Len(ids) |-> ModelOf(ids[j])]

\* the analyze calls of step i, and the number of analyze calls made before step i
CallsOfStep(i) == SelectSeq(calls, LAMBDA c : c.step = i)
CallsBefore(i) == Len(SelectSeq(calls, LAMBDA c : c.step < i))
Terminal == pc \in {"Completed", "Failed", "Rejected"}
RwfCalls == {rwfLog[k] : k \in 1..Len(rwfLog)}

\* C1: after the primary of a runWithFallback call failed, the analyze calls of the call
\* are the primary followed by a prefix of its live fallback chain, in chain order; every
\* call before the last one failed; and when the call returns, it returns the output of
\* the last candidate called, which succeeded (so no later candidate was called).
C1_FirstSuccessfulFallback ==
    \A e \in RwfCalls :
        e.failedPrimary =>
            LET cs == CallsOfStep(e.step)
                chain == LiveChain(e.primary)
            IN /\ Len(cs) >= 1
               /\ Len(cs) - 1 <= Len(chain)
               /\ cs[1].model = ModelOf(e.primary)
               /\ \A j \in 2..Len(cs) : cs[j].model = chain[j - 1]
               /\ \A j \in 1..(Len(cs) - 1) : cs[j].outcome = "failed"
               /\ e.status = "pending" => cs[Len(cs)].outcome = "pending"
               /\ e.status = "returned" =>
                     /\ Len(cs) >= 2
                     /\ cs[Len(cs)].outcome = "ok"
                     /\ e.output = OutputOf(cs[Len(cs)].model, CallsBefore(e.step) + Len(cs))

\* C1 witness: chain [F1, F2], the primary and F1 failed, F2's output was returned
C1_Witness ==
    \E e \in RwfCalls :
        /\ e.failedPrimary
        /\ Len(LiveChain(e.primary)) = 2
        /\ e.status = "returned"
        /\ Len(CallsOfStep(e.step)) = 3
        /\ e.output.by = LiveChain(e.primary)[2]

\* C2: a runWithFallback call whose primary was called raises only after the primary and
\* every live fallback failed, and the error it raises is the primary's error.
C2_PrimaryErrorRaised ==
    \A e \in RwfCalls :
        (e.status = "threw" /\ Available(e.primary)) =>
            LET cs == CallsOfStep(e.step)
            IN /\ Len(cs) = 1 + Len(LiveChain(e.primary))
               /\ \A j \in 1..Len(cs) : cs[j].outcome = "failed"
               /\ e.error = AnalysisError(ModelOf(e.primary), CallsBefore(e.step) + 1)

\* C2 witness: the primary and both fallbacks failed and the call raised
C2_Witness ==
    \E e \in RwfCalls :
        /\ e.status = "threw"
        /\ Available(e.primary)
        /\ Len(LiveChain(e.primary)) = 2
        /\ Len(CallsOfStep(e.step)) = 3

\* C3: a runWithFallback call for an id that is not registered or is disabled raises the
\* model-not-found error and makes no analyze call, whatever its fallback chain holds.
C3_ModelNotFoundImmediately ==
    \A e \in RwfCalls :
        ~Available(e.primary) =>
            /\ e.status = "threw"
            /\ e.error = ModelNotFoundError(e.primary)
            /\ e.tried = <<>>
            /\ CallsOfStep(e.step) = <<>>

\* C3 witness: the primary is disabled or absent, it has live fallbacks, the call raised
C3_Witness ==
    \E e \in RwfCalls :
        /\ ~Available(e.primary)
        /\ Len(LiveChain(e.primary)) >= 1
        /\ e.status = "threw"

\* C4: once the runWithFallback call of a step has raised, the run is over: no analyze
\* call and no loading event of a later step exists, and no call is in flight.
C4_FailFast ==
    \A e \in RwfCalls :
        e.status = "threw" =>
            /\ Terminal
            /\ cur = NoModel
            /\ \A j \in 1..Len(calls) : calls[j].step <= e.step
            /\ \A j \in 1..Len(events) :
                  events[j].status = "loading" => events[j].step <= e.step
            /\ \A x \in RwfCalls : x.step <= e.step

\* C4 witness: step 1 failed while the model of step 2 is available
C4_Witness ==
    /\ \E e \in RwfCalls : e.step = 1 /\ e.status = "threw"
    /\ Available(Reasoning)
    /\ Terminal

Range(q) == {q[i] : i \in 1..Len(q)}
StepReturned(i) == \E e \in RwfCalls : e.step = i /\ e.status = "returned"
StepThrew(i) == \E e \in RwfCalls : e.step = i /\ e.status = "threw"
OutputOfStep(i) == (CHOOSE e \in RwfCalls : e.step = i).output
ErrorOfStep(i) == (CHOOSE e \in RwfCalls : e.step = i).error

\* C5: a run whose step 1 succeeded and whose step 2 failed without fallbacks returns a
\* result with success = false, two step records (vision succeeded, reasoning failed with
\* the error) and outputs holding step 1's output only.
C5_FailedStepRecorded ==
    (pc = "Failed" /\ StepReturned(1) /\ StepThrew(2) /\ LiveChain(Reasoning) = <<>>) =>
        /\ result.success = FALSE
        /\ Len(result.steps) = 2
        /\ result.steps[1] = [name |-> "vision", success |-> TRUE, error |-> "none"]
        /\ result.steps[2] = [name |-> "reasoning", success |-> FALSE,
                              error |-> ErrorOfStep(2).message]
        /\ DOMAIN result.outputs = {"vision"}
        /\ result.outputs["vision"] = OutputOfStep(1)

\* C6: when both steps succeeded, the run ends with the result completed as a success:
\* no error, one successful record per step in order, both outputs under the step names,
\* and the success event (2, 2) as the last event.
C6_AllStepsSucceeded ==
    (Terminal /\ StepReturned(1) /\ StepReturned(2)) =>
        /\ pc = "Completed"
        /\ result.success = TRUE
        /\ result.ended
        /\ result.error = NoError
        /\ result.steps = <<[name |-> "vision", success |-> TRUE, error |-> "none"],
                            [name |-> "reasoning", success |-> TRUE, error |-> "none"]>>
        /\ DOMAIN result.outputs = {"vision", "reasoning"}
        /\ result.outputs["vision"] = OutputOfStep(1)
        /\ result.outputs["reasoning"] = OutputOfStep(2)
        /\ events[Len(events)] = [step |-> TotalSteps, total |-> TotalSteps,
                                   message |-> "Analysis complete", status |-> "success"]

\* C7: the promise of executeImagePipeline is never rejected.
C7_NeverRejects == pc # "Rejected"

\* C8: when a callback raises during a delivery, every callback registered after it is
\* still invoked for that event, and the error reaches neither the result nor the caller.
C8_RaisingObserverIsolated ==
    /\ \A k \in 1..Len(deliveries) :
          deliveries[k].raised => Range(deliveries[k].before) \subseteq Range(deliveries[k].delivered)
    /\ result.error.kind # "ObserverError"
    /\ thrown.kind # "ObserverError"

\* C9: every _emitProgress call invokes each callback registered at that moment exactly
\* once, in registration order.
C9_EveryObserverInOrder ==
    \A k \in 1..Len(deliveries) : deliveries[k].delivered = deliveries[k].before

\* C10: when callbacks unsubscribe themselves during a delivery in which nothing raises
\* (the registered callbacks being pairwise different functions), they are off the list
\* afterwards, and every other callback registered at that moment is invoked for the
\* event and stays registered.
C10_UnsubscribeLeavesOthers ==
    \A k \in 1..Len(deliveries) :
        LET d == deliveries[k]
        IN (~d.raised /\ \A i, j \in 1..Len(d.before) :
                            i # j => subs[d.before[i]] # subs[d.before[j]]) =>
              /\ \A r \in d.unsubscribed : r \notin Range(d.after)
              /\ \A r \in Range(d.before) \ d.unsubscribed :
                    r \in Range(d.delivered) /\ r \in Range(d.after)

\* C11: a call of the closure returned by the r-th onProgress call removes the entry that
\* call created, if it is still on the list, and nothing else; the other entries keep
\* their order (so a second call changes nothing).
C11_UnsubscribeOwnRegistration ==
    [][\A r \in 1..Len(subs) :
          Unsubscribe(r) =>
              progressCallbacks' = SelectSeq(progressCallbacks, LAMBDA e : e.reg # r)]_vars

EntryOf(id) == CHOOSE e \in Range(models) : e.id = id
Occurrences(q, x) == Cardinality({i \in 1..Len(q) : q[i] = x})

\* C12: right after unregister(id), get(id) returns nothing and id is in no fallback chain.
C12_UnregisterPurges ==
    lastOp.op = "unregister" =>
        /\ get(models, lastOp.arg) = NoModel
        /\ \A p \in DOMAIN fallbacks : lastOp.arg \notin Range(fallbacks[p])

\* C13: no fallback chain holds the same id twice.
C13_NoDuplicateInChain ==
    \A p \in DOMAIN fallbacks : \A id \in Range(fallbacks[p]) : Occurrences(fallbacks[p], id) = 1

\* C14: an id is in the chain of p only if it is registered and its current registration
\* has fallbackFor = p.
C14_ChainMatchesRegistration ==
    \A p \in DOMAIN fallbacks : \A id \in Range(fallbacks[p]) :
        /\ Registered(id)
        /\ EntryOf(id).fallbackFor = p

\* C17: getFallbacks(p) returns the models of the entries of p's chain that are registered
\* and enabled, in chain order (whatever their priorities), skipping the others; and a
\* register call with fallbackFor = p puts its id at the end of p's chain, so chain order
\* is the order of registration as a fallback for p.
C17_GetFallbacksLiveChain ==
    /\ [](lastOp.op = "getFallbacks" => lastOp.ret = LiveChain(lastOp.arg))
    /\ [][\A id \in RegistryIds : \A o \in ChainOptions(id) :
             (Register(id, InstanceOf(id), o) /\ o.fallbackFor # Undef) =>
                 fallbacks'[o.fallbackFor] = Append(fallbacks[o.fallbackFor], id)]_vars

\* C17 witness: a chain of two whose first entry is disabled or missing; the second is returned
C17_Witness ==
    /\ lastOp.op = "getFallbacks"
    /\ Len(fallbacks[lastOp.arg]) = 2
    /\ ~Available(fallbacks[lastOp.arg][1])
    /\ Available(fallbacks[lastOp.arg][2])
    /\ lastOp.ret = <<ModelOf(fallbacks[lastOp.arg][2])>>

\* what the documentation says get(id) returns in the current state
Lookup(id) == IF Available(id) THEN ModelOf(id) ELSE NoModel

\* C15: a get(id) call returns the model of id's registration if id is registered and
\* enabled and the null value otherwise; that registration is the most recent one:
\* register(id, model, options) makes the lookup of id give model (null when disabled),
\* unregister(id) makes it give null, and neither changes the lookup of another id.
C15_GetMostRecentEnabled ==
    [][/\ lastOp'.op = "get" => lastOp'.ret = <<Lookup(lastOp'.arg)>>
       /\ lastOp'.op = "register" =>
             /\ get(models', lastOp'.arg) =
                    IF lastOp'.enabled = "false" THEN NoModel ELSE lastOp'.model
             /\ \A other \in RegistryIds \ {lastOp'.arg} :
                   get(models', other) = get(models, other)
       /\ lastOp'.op = "unregister" =>
             /\ get(models', lastOp'.arg) = NoModel
             /\ \A other \in RegistryIds \ {lastOp'.arg} :
                   get(models', other) = get(models, other)
       /\ lastOp'.op \in {"get", "getByCapability", "getFallbacks"} => models' = models
      ]_vars

\* C15 witness: get returned the instance an id was registered with, which is not the
\* instance named after the id, while another id is registered but disabled
C15_Witness ==
    /\ lastOp.op = "get"
    /\ Available(lastOp.arg)
    /\ lastOp.ret = <<ModelOf(lastOp.arg)>>
    /\ ModelOf(lastOp.arg) # InstanceOf(lastOp.arg)
    /\ \E id \in RegistryIds : Registered(id) /\ ~Available(id)

\* the registrations a capability filter selects
Selected(filter) ==
    {e \in Range(models) :
        /\ e.enabled
        /\ filter.type # Undef => CapabilitiesOf(e.model).type = filter.type
        /\ filter.role # Undef => CapabilitiesOf(e.model).role = filter.role}

\* C16: getByCapability(filter) returns one item per enabled registration matching every
\* set filter field and nothing else, each with the registration's id, model and priority,
\* in descending priority, items of equal priority in the order of the registry's entries.
C16_GetByCapabilitySorted ==
    lastOp.op = "getByCapability" =>
        LET ret == lastOp.ret
        IN /\ {ret[i].id : i \in 1..Len(ret)} = {e.id : e \in Selected(lastOp.arg)}
           /\ Len(ret) = Cardinality(Selected(lastOp.arg))
           /\ \A i \in 1..Len(ret) :
                 /\ ret[i].model = EntryOf(ret[i].id).model
                 /\ ret[i].priority = EntryOf(ret[i].id).priority
           /\ \A i, j \in 1..Len(ret) :
                 i < j =>
                    \/ ret[i].priority > ret[j].priority
                    \/ /\ ret[i].priority = ret[j].priority
                       /\ MapIndex(models, ret[i].id) < MapIndex(models, ret[j].id)

\* C16 witness: three items; the entry registered last has the highest priority and is
\* listed first, the two others tie and keep their order
C16_Witness ==
    /\ lastOp.op = "getByCapability"
    /\ Len(lastOp.ret) = 3
    /\ lastOp.ret[1].priority > lastOp.ret[2].priority
    /\ lastOp.ret[2].priority = lastOp.ret[3].priority
    /\ MapIndex(models, lastOp.ret[1].id) = 3

\* the entry of results a finished model health check of id has to give
ExpectedHealth(id) ==
    LET outcome == HealthOutcome(InstanceOf(id))
    IN [healthy |-> outcome = "true",
        error |-> IF outcome = "raise" THEN HealthErrorMessage ELSE NoMessage]
ResultsOf(id) == {e \in Range(health.results) : e.id = id}

\* C18: when healthCheck() returns, results has exactly one entry for every registered id,
\* enabled or disabled; an entry reports healthy = true only if its model's check resolved
\* to true, and healthy = false with the error message if the check raised; a raising
\* check ends nothing: with no register/unregister during the call, results has the
\* registered ids and no other, in the order of the registry, each with its enabled flag.
C18_HealthCheckCoversAll ==
    health.state = "done" =>
        /\ \A id \in HealthIds : Registered(id) => Cardinality(ResultsOf(id)) = 1
        /\ \A e \in Range(health.results) :
              /\ e.healthy = ExpectedHealth(e.id).healthy
              /\ e.error = ExpectedHealth(e.id).error
        /\ lastOp.op = "healthCheck" =>
              /\ Len(health.results) = Len(models)
              /\ \A i \in 1..Len(models) :
                    /\ health.results[i].id = models[i].id
                    /\ health.results[i].enabled = models[i].enabled

\* C18 witness: a returned healthCheck over three registrations, the first of which raised
\* and one of which is disabled.
C18_Witness ==
    /\ health.state = "done"
    /\ lastOp.op = "healthCheck"
    /\ Len(models) = 3
    /\ HealthOutcome(models[1].model) = "raise"
    /\ health.results[1].error = HealthErrorMessage
    /\ health.results[2].healthy
    /\ \E i \in 1..3 : ~models[i].enabled

\* the positions in events of the loading events
LoadingEvents == {k \in 1..Len(events) : events[k].status = "loading"}

\* C19: the steps are processed in declaration order: the n-th loading event carries step
\* index n and the total step count, and the analyze calls are made in step order; every
\* analyze call of a step is made after that step's loading event was emitted, and when
\* the loading event of a step is emitted every analyze call of the step before it has
\* settled.
C19_LoadingEventBeforeStepCalls ==
    /\ \A k \in LoadingEvents :
          /\ events[k].step = Cardinality({j \in LoadingEvents : j <= k})
          /\ events[k].total = TotalSteps
          /\ \A c \in Range(calls) :
                /\ c.step = events[k].step => c.eventsAtCall >= k
                /\ c.step < events[k].step => c.outcome # "pending" /\ c.eventsAtSettle < k
    /\ \A c \in Range(calls) : \E k \in LoadingEvents : events[k].step = c.step
    /\ \A i, j \in 1..Len(calls) : i < j => calls[i].step <= calls[j].step

\* C19 witness: a finished run in which step 1 made two analyze calls (primary, then a
\* fallback) before step 2's loading event, and step 2 made a call after it.
C19_Witness ==
    /\ Terminal
    /\ Cardinality(LoadingEvents) = TotalSteps
    /\ Len(CallsOfStep(1)) = 2
    /\ Len(CallsOfStep(2)) >= 1

\* C20: a run in which the runWithFallback call of a step raised ends with a result with
\* success = false whose error is the error that call raised, with exactly one event of
\* status error, carrying step index 0, and with no event of status success.
C20_FailedStepSurfaced ==
    \A i \in 1..TotalSteps :
        (Terminal /\ StepThrew(i)) =>
            /\ pc = "Failed"
            /\ result.success = FALSE
            /\ result.error = ErrorOfStep(i)
            /\ Cardinality({k \in 1..Len(events) : events[k].status = "error"}) = 1
            /\ \A k \in 1..Len(events) : events[k].status = "error" => events[k].step = 0
            /\ \A k \in 1..Len(events) : events[k].status # "success"

\* the analyze call of step i that resolved
SucceededCall(i) == CHOOSE k \in 1..Len(calls) : calls[k].step = i /\ calls[k].outcome = "ok"

\* C21: every analyze call of a run is given the image the run was started with, and every
\* analyze call of step 2, primary or fallback, is given a context whose detections are
\* the output of the step-1 analyze call that resolved.
C21_InputAndContextPassed ==
    \A k \in 1..Len(calls) :
        /\ calls[k].input = image
        /\ calls[k].input \in Inputs
        /\ calls[k].step = 1 => calls[k].context = EmptyContext
        /\ calls[k].step = 2 =>
              /\ \E j \in 1..(k-1) : calls[j].step = 1 /\ calls[j].outcome = "ok"
              /\ calls[k].context =
                    DetectionsContext(OutputOf(calls[SucceededCall(1)].model, SucceededCall(1)))

\* C21 witness: step 1 ended with a fallback's output and step 2 called its primary and a
\* fallback.
C21_Witness ==
    /\ Len(CallsOfStep(1)) >= 2
    /\ Len(CallsOfStep(2)) >= 2
    /\ calls[Len(calls)].context.detections.by \in {"fb1", "fb2"}

\* C22: at most one analyze call is in flight, and it is the latest one; an analyze call
\* that follows another call of the same step was made after that call failed, and the
\* first analyze call of step 2 was made after an analyze call of step 1 resolved.
C22_OneCallInFlight ==
    /\ Cardinality({k \in 1..Len(calls) : calls[k].outcome = "pending"}) <= 1
    /\ \A k \in 1..Len(calls) :
          /\ calls[k].outcome = "pending" => k = Len(calls) /\ cur = calls[k].model
          /\ k > 1 /\ calls[k].step = calls[k-1].step => calls[k-1].outcome = "failed"
          /\ k > 1 /\ calls[k].step # calls[k-1].step =>
                /\ calls[k-1].outcome = "ok"
                /\ calls[k].step = calls[k-1].step + 1
                /\ StepReturned(calls[k-1].step)
    /\ cur # NoModel => calls # <<>> /\ calls[Len(calls)].outcome = "pending"

\* C22 witness: step 1 took three attempts and the primary of step 2 is in flight
C22_Witness ==
    /\ Len(CallsOfStep(1)) = 3
    /\ Len(CallsOfStep(2)) = 1
    /\ calls[Len(calls)].outcome = "pending"

\* C23: a run is pending, awaiting an analyze call, Completed with a result of success =
\* true or Failed with a result of success = false, and nothing else; a run that is over
\* has no analyze call in flight; every step has at most one runWithFallback call, and no
\* model is called twice in one step.
C23_RunEndsCompletedOrFailed ==
    /\ pc \in {"Pending", "AwaitPrimary", "AwaitFallback", "Completed", "Failed"}
    /\ pc = "Completed" => result.ended /\ result.success
    /\ pc = "Failed" => result.ended /\ ~result.success
    /\ Terminal => cur = NoModel /\ \A k \in 1..Len(calls) : calls[k].outcome # "pending"
    /\ \A i, j \in 1..Len(rwfLog) : rwfLog[i].step = rwfLog[j].step => i = j
    /\ \A i, j \in 1..Len(calls) :
          calls[i].step = calls[j].step /\ calls[i].model = calls[j].model => i = j

\* C24: a PipelineResult is not ended before complete() is invoked, and once it is ended
\* no operation changes its step records, outputs, success, error or end time.
C24_FrozenAfterComplete ==
    [][/\ (~result.ended /\ result'.ended) => result' = complete(result, result'.success)
       /\ result.ended => result' = result]_vars

\* the position in getFallbacks(p) of the k-th entry of p's stored chain, if it is live
ChainRank(m, f, p, k) == Len(SelectSeq(SubSeq(f[p], 1, k), LAMBDA x : get(m, x) # NoModel))

\* C25: a register call with fallbackFor = p appends its id to p's chain also when the
\* registration is disabled, and no register call removes or moves an entry of a chain;
\* getFallbacks changes neither the registrations nor the chains; after a register call
\* every entry of a stored chain that is registered and enabled, in particular one that was
\* skipped as disabled before the call, is returned by getFallbacks at the place its chain
\* position gives it among the live entries.
C25_FilteringAtLookupOnly ==
    [][/\ lastOp'.op = "getFallbacks" => models' = models /\ fallbacks' = fallbacks
       /\ lastOp'.op = "register" =>
             LET id == lastOp'.arg
                 e == models'[MapIndex(models', id)]
             IN \A p \in DOMAIN fallbacks :
                   /\ fallbacks'[p] = IF e.fallbackFor = p THEN Append(fallbacks[p], id)
                                      ELSE fallbacks[p]
                   /\ \A k \in 1..Len(fallbacks[p]) :
                         get(models', fallbacks[p][k]) # NoModel =>
                            getFallbacks(models', fallbacks', p)[ChainRank(models', fallbacks', p, k)]
                               = get(models', fallbacks[p][k])
      ]_vars

\* C25 witness: getFallbacks returned both entries of a chain whose first entry was
\* registered again after it was put on the chain, and is enabled
C25_Witness ==
    /\ lastOp.op = "getFallbacks"
    /\ fallbacks[lastOp.arg] = <<"fb1", "fb2">>
    /\ EntryOf("fb1").fallbackFor = NoId
    /\ lastOp.ret = <<InstanceOf("fb1"), InstanceOf("fb2")>>

\* C26: a getFallbacks(p) call for an id p that has no registration returns the empty
\* sequence, whatever is registered with fallbackFor = p.
C26_MissingPrimaryNoFallbacks ==
    (lastOp.op = "getFallbacks" /\ ~Registered(lastOp.arg)) => lastOp.ret = <<>>

\* C27: the candidates of a runWithFallback call are the live fallback chain of its primary
\* at the moment the primary's failure is observed, whatever the chain was when the call
\* started; from then on they are fixed: the analyze calls of the call are the primary
\* followed by a prefix of those candidates (all of them if the call raised), whatever is
\* registered or unregistered while a fallback's analyze is in flight.
C27_CandidatesResolvedAtFailure ==
    /\ [][\A n \in 1..Len(rwfLog') :
             /\ (rwfLog'[n].failedPrimary /\ (n > Len(rwfLog) \/ ~rwfLog[n].failedPrimary)) =>
                   rwfLog'[n].chain = LiveChain(rwfLog'[n].primary)
             /\ (n <= Len(rwfLog) /\ rwfLog[n].failedPrimary) =>
                   rwfLog'[n].chain = rwfLog[n].chain]_vars
    /\ [](\A e \in RwfCalls :
             e.failedPrimary =>
                /\ Len(e.tried) <= Len(e.chain) + 1
                /\ \A j \in 2..Len(e.tried) : e.tried[j] = e.chain[j - 1]
                /\ e.status = "threw" => Len(e.tried) = Len(e.chain) + 1)

\* C27 witness: the second candidate was unregistered while the first candidate's analyze
\* was in flight and was called all the same, and the first candidate was not in the
\* chain when the run started
C27_Witness ==
    \E e \in RwfCalls :
        /\ e.failedPrimary
        /\ e.chain = <<InstanceOf("fb2"), InstanceOf("fb1")>>
        /\ e.tried = <<InstanceOf(Vision), InstanceOf("fb2"), InstanceOf("fb1")>>
        /\ ~Registered("fb1")

\* C28: the progress events of a run are loading events with step indices 1, 2, ... in
\* this order, followed, once the run is over, by exactly one event of status success or
\* error, which is the last event; no run has both a success and an error event.
C28_EventSequenceShape ==
    LET terminal == {k \in 1..Len(events) : events[k].status \in {"success", "error"}}
    IN /\ \A k \in 1..Len(events) :
             events[k].status = "loading" => events[k].step = k
       /\ \A k \in terminal : k = Len(events)
       /\ Terminal => Cardinality(terminal) = 1
       /\ ~Terminal => terminal = {}
       /\ ~(/\ \E k \in 1..Len(events) : events[k].status = "success"
            /\ \E k \in 1..Len(events) : events[k].status = "error")

\* C29: no runAnalysis call starts a run while another run it started is in flight; the
\* lock is held exactly while a runAnalysis call awaits its run; a runAnalysis call made
\* while isProcessing is true starts no run and registers no observer; a call made while
\* it is false starts a run; and when the awaited run is over, completed, failed or
\* rejected, isProcessing is false again.
C29_RunAnalysisLock ==
    /\ [](/\ ~app.overlap
          /\ app.isProcessing <=> app.at = "awaiting"
          /\ app.at = "idle" => pc = "Pending" /\ cur = NoModel)
    /\ [][/\ (app'.n = app.n + 1 /\ app.isProcessing) =>
                /\ app'.last = "ignored"
                /\ app'.isProcessing
                /\ UNCHANGED <<progressCallbacks, subs, runVars, registryVars>>
          /\ (app'.n = app.n + 1 /\ ~app.isProcessing) =>
                /\ app'.last = "started"
                /\ app'.isProcessing
                /\ events' # <<>>
                /\ Len(progressCallbacks') = Len(progressCallbacks) + 1
          /\ (app.at = "awaiting" /\ Terminal /\ app'.n = app.n) =>
                ~app'.isProcessing /\ app'.at = "idle"]_vars

\* C29 witness: a second runAnalysis call started a run after the run of the first one
\* ended with a rejected promise (the observer of the first call is still registered)
C29_Witness ==
    /\ app.n = 2
    /\ app.last = "started"
    /\ app.isProcessing
    /\ Len(progressCallbacks) = 2

\* C30: when no runAnalysis call is in flight, the engine's observer list holds no observer
\* that a runAnalysis call registered.
C30_ObserverRemoved ==
    app.at = "idle" =>
        \A i \in 1..Len(progressCallbacks) :
            \A r \in 1..Len(subs) : progressCallbacks[i].cb # AppCallback(r)

\* the execute call is over: its promise resolved with results or rejected
ImageEnded == imageRun.at \in {"returned", "rejected"}
ImageModels == {imageRun.calls[k].model : k \in 1..Len(imageRun.calls)}

\* C31: ImagePipeline.execute calls nothing but the vision and the reasoning model, each at
\* most once, whatever fallbacks are registered; when the vision model was looked up and
\* is absent or disabled, or its analyze failed, the reasoning model is neither looked up
\* nor called and results has success = false, the raised error and no step entry; when
\* the reasoning model was looked up and is absent or disabled, or its analyze failed,
\* results has the detection output in steps.detect, no steps.analyze, success = false and
\* the raised error; the promise is rejected only by a raising onProgress.
C31_ImagePipelineFailFast ==
    LET p == imageRun
    IN /\ ImageModels \subseteq {InstanceOf(Vision), InstanceOf(Reasoning)}
       /\ Len(p.calls) <= Len(p.lookups) /\ Len(p.lookups) <= Len(ImageSteps)
       /\ \A k \in 1..Len(p.lookups) : p.lookups[k] = IF k = 1 THEN Vision ELSE Reasoning
       /\ \A k \in 1..Len(p.calls) : p.calls[k].model = InstanceOf(p.lookups[k])
       /\ (ImageEnded /\ Len(p.lookups) >= 1 /\ ~Available(Vision)) =>
             /\ p.lookups = <<Vision>> /\ p.calls = <<>>
             /\ ~p.results.success
             /\ p.results.error = NotAvailableError(Vision)
             /\ DOMAIN p.results.steps = {}
       /\ (ImageEnded /\ Len(p.calls) >= 1 /\ p.calls[1].outcome = "failed") =>
             /\ p.lookups = <<Vision>> /\ Len(p.calls) = 1
             /\ ~p.results.success
             /\ p.results.error = AnalysisError(InstanceOf(Vision), 1)
             /\ DOMAIN p.results.steps = {}
       /\ (ImageEnded /\ Len(p.lookups) = 2 /\ ~Available(Reasoning)) =>
             /\ Len(p.calls) = 1
             /\ DOMAIN p.results.steps = {"detect"}
             /\ p.results.steps["detect"] = OutputOf(InstanceOf(Vision), 1)
             /\ ~p.results.success
             /\ p.results.error = NotAvailableError(Reasoning)
       /\ (ImageEnded /\ Len(p.calls) = 2 /\ p.calls[2].outcome = "failed") =>
             /\ DOMAIN p.results.steps = {"detect"}
             /\ p.results.steps["detect"] = OutputOf(InstanceOf(Vision), 1)
             /\ ~p.results.success
             /\ p.results.error = AnalysisError(InstanceOf(Reasoning), 2)
       /\ p.at = "rejected" => p.thrown = ObserverError(0) /\ ~p.results.success

\* C31 witness: execute returned after the vision model's analyze failed, although the
\* vision model has a live fallback and the reasoning model is available
C31_Witness ==
    /\ imageRun.at = "returned"
    /\ Len(imageRun.calls) = 1
    /\ imageRun.calls[1].outcome = "failed"
    /\ LiveChain(Vision) # <<>>
    /\ Available(Reasoning)

\* C32: a register call stores priority 1 when options.priority is omitted and the given
\* integer, 0 included, when it is given.
C32_PriorityStoredAsGiven ==
    [][\A id \in RegistryIds : \A o \in PriorityOptions :
          Register(id, InstanceOf(id), o) =>
             models'[MapIndex(models', id)].priority =
                IF o.priority = {} THEN 1 ELSE CHOOSE q \in o.priority : TRUE]_vars

====
